---- MODULE Spec2Model ----
(***************************************************************************)
(* Model of the healthcare chatbot (src/src/app.py).                       *)
(*                                                                         *)
(* The application is a Streamlit script.  Every interaction of a UI       *)
(* session (a page load, a submitted chat input) runs the script from the  *)
(* top: main() loads and splits the documents, builds the models and the   *)
(* index, builds the conversational chain, creates the session store       *)
(* (store = {}, a local of main) and shows the chat interface, which       *)
(* handles at most one query.  st.session_state is the only state that     *)
(* survives from one run of a UI session to the next.  Script runs of      *)
(* different UI sessions run concurrently, one thread each.                *)
(*                                                                         *)
(* Library behaviour the script relies on is modelled at its call site:    *)
(* RunnableWithMessageHistory fetches the history through the factory it   *)
(* is given before it runs the chain and appends the input and output      *)
(* messages only when the chain ends without an exception;                 *)
(* create_history_aware_retriever hands the input to the retriever as is   *)
(* when chat_history is empty and asks the model for a reformulation       *)
(* otherwise; create_retrieval_chain retrieves, then answers;              *)
(* FAISS.from_documents raises on an empty list of documents.  Calls to    *)
(* services (secrets, model, embedding) succeed or raise, as the           *)
(* environment decides.                                                    *)
(***************************************************************************)
EXTENDS Naturals, Sequences, FiniteSets, TLC

VARIABLES
    corpus,         \* the data directory: "missing", "empty" or "docs"
    secretsOk,      \* whether the secrets the script reads are present
    pc,             \* pc[u]: where the script run of UI session u stands
    query,          \* query[u]: the chat input of the run, or None
    store,          \* store[s]: the store of main(), session id -> history
    fetched,        \* fetched[u]: the chat_history handed to the chain
    standalone,     \* standalone[u]: the query handed to the retriever
    retrieved,      \* retrieved[u]: the retriever's result
    answer,         \* answer[u]: response["answer"]
    session_state,  \* session_state[u]: st.session_state of UI session u
    completed,      \* completed[sid]: the turns completed under sid, in order
    offered,        \* offered[u]: the page of u shows the chat input
    turns,          \* number of queries submitted so far
    lastOp          \* the last call made on the store by SpecComponents

vars == <<corpus, secretsOk, pc, query, store, fetched, standalone, retrieved,
          answer, session_state, completed, offered, turns, lastOp>>

(* ---------------------------------------------------------------- bounds *)

MaxTurns == 3
NumChunks == 2
MaxHist == 2

\* FAISS.as_retriever() searches with its default k.
TopK == 4

Users == {"u1", "u2"}
Utterances == {"q1", "q2"}
Answers == {"a1", "a2"}
\* What the language model may return as a reformulated question.
Reformulations == Utterances \cup {"q1 about a1"}

None == "none"

\* The session id handle_user_query passes in the config.
SESSION_ID == "mental_health"
SessionIds == {SESSION_ID, "other"}

Stages == {"RECEIVED", "REWRITING", "RETRIEVING", "GENERATING", "COMPLETED", "FAILED"}
InFlightStages == {"RECEIVED", "REWRITING", "RETRIEVING", "GENERATING"}

(* --------------------------------------------------------------- helpers *)

Min(a, b) == IF a <= b THEN a ELSE b

IsPrefix(s, t) == Len(s) <= Len(t) /\ SubSeq(t, 1, Len(s)) = s

\* The messages RunnableWithMessageHistory stores: the input as a human
\* message, the value under output_messages_key as an AI message.  by and sid
\* record who issued the turn and under which session id it was appended.
HumanMessage(u, sid, text) == [role |-> "human", content |-> text, by |-> u, sid |-> sid]
AIMessage(u, sid, text) == [role |-> "ai", content |-> text, by |-> u, sid |-> sid]

\* The entries display_chat_interface appends to st.session_state.messages.
UserEntry(text) == [role |-> "user", content |-> text]
AssistantEntry(text) == [role |-> "assistant", content |-> text]

EmptyStore == [k \in {} |-> <<>>]

(* ------------------------------------------------------- the session store *)

\* get_session_history without its membership test: a new history each call.
GetSessionHistoryFresh(st, sid) ==
    [k \in DOMAIN st \cup {sid} |-> IF k = sid THEN <<>> ELSE st[k]]

\* get_session_history(store, session_id): the store after the call; the
\* history the call returns is the entry of session_id in it.
GetSessionHistory(st, sid) ==
    IF sid \notin DOMAIN st
    THEN [k \in DOMAIN st \cup {sid} |-> IF k = sid THEN <<>> ELSE st[k]]
    ELSE st

\* One store for the whole process, as a store at module level would be.
StoreOfShared(u) == CHOOSE s \in Users : TRUE

\* The store a script run of UI session u works on: main() builds its own.
StoreOf(u) == u

\* As ExitMessages, with the input saved even when the chain raised.
ExitMessagesEager(input, output, ok) ==
    IF ok THEN <<input, output>> ELSE <<input>>

\* The messages RunnableWithMessageHistory appends when the chain is left:
\* input and output after a normal end, nothing after an exception.
ExitMessages(input, output, ok) ==
    IF ok THEN <<input, output>> ELSE <<>>

\* history.add_messages on the history fetched for sid.
AddMessages(st, sid, msgs) ==
    IF sid \in DOMAIN st THEN [st EXCEPT ![sid] = @ \o msgs] ELSE st

(* ------------------------------------------------------------- the startup *)

\* load_and_split_documents: raises when the directory is missing; otherwise
\* returns the chunks of whatever PDF files the directory holds.
LoadAndSplitDocuments(c) ==
    IF c = "missing"
    THEN [ok |-> FALSE, chunks |-> 0]
    ELSE [ok |-> TRUE, chunks |-> IF c = "empty" THEN 0 ELSE NumChunks]

\* initialize_models_and_store: raises without the API key, and when
\* FAISS.from_documents is given no documents.
InitializeModelsAndStore(chunks, secrets) ==
    IF ~secrets THEN [ok |-> FALSE, index |-> 0]
    ELSE IF chunks = 0 THEN [ok |-> FALSE, index |-> 0]
    ELSE [ok |-> TRUE, index |-> chunks]

\* initialize_session_state: creates the two lists unless they exist.
InitializeSessionState(ss) ==
    [k \in DOMAIN ss \cup {"chat_history", "messages"} |->
        IF k \in DOMAIN ss THEN ss[k] ELSE <<>>]

(* --------------------------------------------------------------- the chain *)

\* The chain with the answer generated before the retrieval.
ChainOrderSwapped ==
    <<"RECEIVED", "REWRITING", "GENERATING", "RETRIEVING", "COMPLETED">>

\* create_retrieval_chain(history_aware_retriever, question_answer_chain)
\* inside RunnableWithMessageHistory: the order of the stages of a turn.
ChainOrder ==
    <<"RECEIVED", "REWRITING", "RETRIEVING", "GENERATING", "COMPLETED">>

NextStage(s) ==
    LET i == CHOOSE j \in 1..(Len(ChainOrder) - 1) : ChainOrder[j] = s
    IN  ChainOrder[i + 1]

\* A rewriter that asks the language model whatever the history holds.
RewriteOutcomesAlwaysModel(hist, utt) ==
    {[ok |-> TRUE, q |-> r] : r \in Reformulations} \cup {[ok |-> FALSE, q |-> None]}

\* The history-aware retriever: the input itself when chat_history is empty,
\* otherwise what the language model answers to the contextualize prompt
\* (or the model's exception).
RewriteOutcomes(hist, utt) ==
    IF hist = <<>>
    THEN {[ok |-> TRUE, q |-> utt]}
    ELSE {[ok |-> TRUE, q |-> r] : r \in Reformulations} \cup {[ok |-> FALSE, q |-> None]}

\* The retriever: the k best chunks of the index, best first, or the
\* embedding's exception.
RetrieveOutcomes(index) ==
    { [ok |-> TRUE, docs |-> [i \in 1..Min(TopK, index) |-> i]],
      [ok |-> FALSE, docs |-> <<>>] }

\* The question-answer chain: the model's answer, or its exception.
GenerateOutcomes ==
    {[ok |-> TRUE, answer |-> a] : a \in Answers} \cup {[ok |-> FALSE, answer |-> None]}

NotRetrieved == [done |-> FALSE, docs |-> <<>>]

NoOp == [op |-> "none", sid |-> None, ret |-> <<>>]

(* ------------------------------------------------------------------- Init *)

Init ==
    /\ corpus \in {"missing", "empty", "docs"}
    /\ secretsOk \in BOOLEAN
    /\ pc = [u \in Users |-> "idle"]
    /\ query = [u \in Users |-> None]
    /\ store = [s \in Users |-> EmptyStore]
    /\ fetched = [u \in Users |-> <<>>]
    /\ standalone = [u \in Users |-> None]
    /\ retrieved = [u \in Users |-> NotRetrieved]
    /\ answer = [u \in Users |-> None]
    /\ session_state = [u \in Users |-> [k \in {} |-> <<>>]]
    /\ completed = [sid \in SessionIds |-> <<>>]
    /\ offered = [u \in Users |-> FALSE]
    /\ turns = 0
    /\ lastOp = NoOp

(* ---------------------------------------------------------------- actions *)

\* Streamlit runs the script for UI session u: a page load (q = None) or a
\* chat input submitted through the chat input the page shows.
StartRun(u, q) ==
    /\ pc[u] = "idle"
    /\ q # None => offered[u] /\ turns < MaxTurns
    /\ pc' = [pc EXCEPT ![u] = "load"]
    /\ query' = [query EXCEPT ![u] = q]
    /\ offered' = [offered EXCEPT ![u] = FALSE]
    /\ turns' = IF q # None THEN turns + 1 ELSE turns
    /\ fetched' = [fetched EXCEPT ![u] = <<>>]
    /\ standalone' = [standalone EXCEPT ![u] = None]
    /\ retrieved' = [retrieved EXCEPT ![u] = NotRetrieved]
    /\ answer' = [answer EXCEPT ![u] = None]
    /\ UNCHANGED <<corpus, secretsOk, store, session_state, completed, lastOp>>

\* main(): document_chunks = load_and_split_documents()
LoadAndSplit(u) ==
    /\ pc[u] = "load"
    /\ pc' = [pc EXCEPT ![u] =
                IF LoadAndSplitDocuments(corpus).ok THEN "init" ELSE "load_failed"]
    /\ UNCHANGED <<corpus, secretsOk, query, store, fetched, standalone, retrieved,
                   answer, session_state, completed, offered, turns, lastOp>>

\* main(): language_model, vector_database = initialize_models_and_store(...)
InitializeModels(u) ==
    /\ pc[u] = "init"
    /\ pc' = [pc EXCEPT ![u] =
                IF InitializeModelsAndStore(LoadAndSplitDocuments(corpus).chunks,
                                            secretsOk).ok
                THEN "chain" ELSE "init_failed"]
    /\ UNCHANGED <<corpus, secretsOk, query, store, fetched, standalone, retrieved,
                   answer, session_state, completed, offered, turns, lastOp>>

\* main(): the chain, store = {}, the RunnableWithMessageHistory and
\* initialize_session_state().
BuildChain(u) ==
    /\ pc[u] = "chain"
    /\ store' = [store EXCEPT ![StoreOf(u)] = EmptyStore]
    /\ session_state' = [session_state EXCEPT ![u] = InitializeSessionState(@)]
    /\ pc' = [pc EXCEPT ![u] = "display"]
    /\ UNCHANGED <<corpus, secretsOk, query, fetched, standalone, retrieved,
                   answer, completed, offered, turns, lastOp>>

\* display_chat_interface up to the call of handle_user_query: shows the
\* messages and the chat input; with a query, appends the user's entry.
Display(u) ==
    /\ pc[u] = "display"
    /\ offered' = [offered EXCEPT ![u] = TRUE]
    /\ IF query[u] = None
       THEN /\ pc' = [pc EXCEPT ![u] = "idle"]
            /\ UNCHANGED session_state
       ELSE /\ pc' = [pc EXCEPT ![u] = "handle"]
            /\ session_state' = [session_state EXCEPT ![u]["messages"] =
                                    Append(@, UserEntry(query[u]))]
    /\ UNCHANGED <<corpus, secretsOk, query, store, fetched, standalone, retrieved,
                   answer, completed, turns, lastOp>>

\* handle_user_query: invoke(...) with session_id "mental_health"; the
\* history is fetched from the store, created if absent.
Receive(u) ==
    /\ pc[u] = "handle"
    /\ LET st == GetSessionHistory(store[StoreOf(u)], SESSION_ID)
       IN  /\ store' = [store EXCEPT ![StoreOf(u)] = st]
           /\ fetched' = [fetched EXCEPT ![u] = st[SESSION_ID]]
    /\ pc' = [pc EXCEPT ![u] = ChainOrder[1]]
    /\ UNCHANGED <<corpus, secretsOk, query, standalone, retrieved, answer,
                   session_state, completed, offered, turns, lastOp>>

\* The chain raised: nothing is returned to handle_user_query, whose
\* except clause logs and raises again.
Fail(u) ==
    /\ pc' = [pc EXCEPT ![u] = "FAILED"]
    /\ store' = [store EXCEPT ![StoreOf(u)] =
                    AddMessages(@, SESSION_ID,
                        ExitMessages(HumanMessage(u, SESSION_ID, query[u]),
                                     AIMessage(u, SESSION_ID, None), FALSE))]

\* The chain starts with the history-aware retriever.
StartRewriting(u) ==
    /\ pc[u] = "RECEIVED"
    /\ pc' = [pc EXCEPT ![u] = NextStage("RECEIVED")]
    /\ UNCHANGED <<corpus, secretsOk, query, store, fetched, standalone, retrieved,
                   answer, session_state, completed, offered, turns, lastOp>>

\* The standalone query is produced.
Rewrite(u) ==
    /\ pc[u] = "REWRITING"
    /\ \E o \in RewriteOutcomes(fetched[u], query[u]) :
          IF o.ok
          THEN /\ standalone' = [standalone EXCEPT ![u] = o.q]
               /\ pc' = [pc EXCEPT ![u] = NextStage("REWRITING")]
               /\ UNCHANGED store
          ELSE /\ Fail(u)
               /\ UNCHANGED standalone
    /\ UNCHANGED <<corpus, secretsOk, query, fetched, retrieved, answer,
                   session_state, completed, offered, turns, lastOp>>

\* The retriever returns the chunks for the standalone query.
Retrieve(u) ==
    /\ pc[u] = "RETRIEVING"
    /\ \E o \in RetrieveOutcomes(
                  InitializeModelsAndStore(LoadAndSplitDocuments(corpus).chunks,
                                           secretsOk).index) :
          IF o.ok
          THEN /\ retrieved' = [retrieved EXCEPT ![u] = [done |-> TRUE, docs |-> o.docs]]
               /\ pc' = [pc EXCEPT ![u] = NextStage("RETRIEVING")]
               /\ UNCHANGED store
          ELSE /\ Fail(u)
               /\ UNCHANGED retrieved
    /\ UNCHANGED <<corpus, secretsOk, query, fetched, standalone, answer,
                   session_state, completed, offered, turns, lastOp>>

\* The answer is generated; the chain ends, the history gets the turn,
\* handle_user_query appends (user_query, answer) to chat_history and returns
\* the answer, and display_chat_interface appends the assistant's entry.
Generate(u) ==
    /\ pc[u] = "GENERATING"
    /\ \E o \in GenerateOutcomes :
          IF o.ok
          THEN /\ answer' = [answer EXCEPT ![u] = o.answer]
               /\ store' = [store EXCEPT ![StoreOf(u)] =
                              AddMessages(@, SESSION_ID,
                                  ExitMessages(HumanMessage(u, SESSION_ID, query[u]),
                                               AIMessage(u, SESSION_ID, o.answer), TRUE))]
               /\ session_state' = [session_state EXCEPT
                      ![u]["chat_history"] = Append(@, <<query[u], o.answer>>),
                      ![u]["messages"] = Append(@, AssistantEntry(o.answer))]
               /\ completed' = [completed EXCEPT ![SESSION_ID] =
                                   Append(@, <<query[u], o.answer>>)]
               /\ pc' = [pc EXCEPT ![u] = NextStage("GENERATING")]
          ELSE /\ Fail(u)
               /\ UNCHANGED <<answer, session_state, completed>>
    /\ UNCHANGED <<corpus, secretsOk, query, fetched, standalone, retrieved,
                   offered, turns, lastOp>>

\* The script run ends: main() returned, or its except clause raised again.
EndRun(u) ==
    /\ pc[u] \in {"COMPLETED", "FAILED", "load_failed", "init_failed"}
    /\ pc' = [pc EXCEPT ![u] = "idle"]
    /\ UNCHANGED <<corpus, secretsOk, query, store, fetched, standalone, retrieved,
                   answer, session_state, completed, offered, turns, lastOp>>

Next ==
    \E u \in Users :
        \/ \E q \in Utterances \cup {None} : StartRun(u, q)
        \/ LoadAndSplit(u)
        \/ InitializeModels(u)
        \/ BuildChain(u)
        \/ Display(u)
        \/ Receive(u)
        \/ StartRewriting(u)
        \/ Rewrite(u)
        \/ Retrieve(u)
        \/ Generate(u)
        \/ EndRun(u)

Spec == Init /\ [][Next]_vars

(* ------------------------------------------- the store and rewriter alone *)

\* The components of the turn that are functions of their arguments, driven
\* with every session id and every history up to MaxHist turns: the store of
\* one script run under get_session_history and add_messages, and the
\* rewriter on the histories the store holds.
ComponentUser == "u1"

GetOrCreate(sid) ==
    /\ store' = [store EXCEPT ![ComponentUser] = GetSessionHistory(@, sid)]
    /\ lastOp' = [op |-> "get", sid |-> sid, ret |-> store'[ComponentUser][sid]]
    /\ fetched' = [fetched EXCEPT ![ComponentUser] = <<>>]
    /\ query' = [query EXCEPT ![ComponentUser] = None]
    /\ standalone' = [standalone EXCEPT ![ComponentUser] = None]
    /\ UNCHANGED <<corpus, secretsOk, pc, retrieved, answer, session_state,
                   completed, offered, turns>>

AppendTurn(sid, utt, ans) ==
    /\ sid \in DOMAIN store[ComponentUser]
    /\ Len(store[ComponentUser][sid]) < 2 * MaxHist
    /\ store' = [store EXCEPT ![ComponentUser] =
                    AddMessages(@, sid,
                        ExitMessages(HumanMessage(ComponentUser, sid, utt),
                                     AIMessage(ComponentUser, sid, ans), TRUE))]
    /\ lastOp' = [op |-> "add", sid |-> sid, ret |-> <<>>]
    /\ fetched' = [fetched EXCEPT ![ComponentUser] = <<>>]
    /\ query' = [query EXCEPT ![ComponentUser] = None]
    /\ standalone' = [standalone EXCEPT ![ComponentUser] = None]
    /\ UNCHANGED <<corpus, secretsOk, pc, retrieved, answer, session_state,
                   completed, offered, turns>>

RewriteWith(sid, utt) ==
    /\ sid \in DOMAIN store[ComponentUser]
    /\ \E o \in RewriteOutcomes(store[ComponentUser][sid], utt) :
          standalone' = [standalone EXCEPT ![ComponentUser] = o.q]
    /\ fetched' = [fetched EXCEPT ![ComponentUser] = store[ComponentUser][sid]]
    /\ query' = [query EXCEPT ![ComponentUser] = utt]
    /\ lastOp' = [op |-> "rewrite", sid |-> sid, ret |-> <<>>]
    /\ UNCHANGED <<corpus, secretsOk, pc, store, retrieved, answer, session_state,
                   completed, offered, turns>>

InitComponents ==
    /\ Init
    /\ corpus = "docs"
    /\ secretsOk = TRUE

NextComponents ==
    \E sid \in SessionIds :
        \/ GetOrCreate(sid)
        \/ \E utt \in Utterances, ans \in Answers : AppendTurn(sid, utt, ans)
        \/ \E utt \in Utterances : RewriteWith(sid, utt)

SpecComponents == InitComponents /\ [][NextComponents]_vars

(* ----------------------------------------------------------------- claims *)

\* What a history holds, without the record of who appended it.
Contents(h) == [i \in 1..Len(h) |-> <<h[i].role, h[i].content>>]

\* The messages of a sequence of (utterance, answer) turns.
TurnContents(ts) ==
    [i \in 1..(2 * Len(ts)) |->
        IF i % 2 = 1 THEN <<"human", ts[(i + 1) \div 2][1]>>
                     ELSE <<"ai", ts[i \div 2][2]>>]

\* The history a store holds for a session id: empty for one it does not hold.
HistoryOf(st, k) == IF k \in DOMAIN st THEN st[k] ELSE <<>>

\* The session id of the turn UI session u has in progress.
TurnSession(u) == SESSION_ID

InFlight(u) == pc[u] \in InFlightStages

\* C1: session isolation.  In the store the turns of UI session u work on,
\* the history kept under a session id holds only messages appended under
\* that session id, and only messages of u's own turns.
C1_SessionIsolation ==
    \A u \in Users : \A k \in DOMAIN store[StoreOf(u)] :
        \A i \in 1..Len(store[StoreOf(u)][k]) :
            /\ store[StoreOf(u)][k][i].sid = k
            /\ store[StoreOf(u)][k][i].by = u

\* Both UI sessions have completed a turn under the same session id, and
\* each history holds one turn.
C1_Witness ==
    /\ Len(completed[SESSION_ID]) = 2
    /\ \A u \in Users :
          /\ SESSION_ID \in DOMAIN store[StoreOf(u)]
          /\ Len(store[StoreOf(u)][SESSION_ID]) = 2
          /\ Len(session_state[u]["chat_history"]) = 1

\* C2: all-or-nothing turn.  When a turn has failed, the history of its
\* session in the store is the history fetched when the turn started.
C2_FailedTurnLeavesHistory ==
    \A u \in Users :
        pc[u] = "FAILED" =>
            /\ TurnSession(u) \in DOMAIN store[StoreOf(u)]
            /\ store[StoreOf(u)][TurnSession(u)] = fetched[u]

\* A turn failed while the answer was generated, after the retrieval.
C2_Witness ==
    \E u \in Users :
        pc[u] = "FAILED" /\ retrieved[u].done /\ standalone[u] = query[u]

\* C3: history is threaded across turns.  The history fetched when a turn
\* is received consists of the turns completed before it for that session,
\* in completion order.
C3_HistoryThreaded ==
    [][\A u \in Users :
          (pc[u] = "handle" /\ pc'[u] = "RECEIVED") =>
              Contents(fetched'[u]) = TurnContents(completed[TurnSession(u)])]_vars

\* C4: per-session mutual exclusion.  At most one turn per session id is in
\* progress, and a turn in progress for one session id leaves the turns of
\* the other session ids able to advance.
C4_MutualExclusion ==
    /\ \A sid \in SessionIds :
          Cardinality({u \in Users : InFlight(u) /\ TurnSession(u) = sid}) <= 1
    /\ \A u, v \in Users :
          (InFlight(u) /\ InFlight(v) /\ TurnSession(u) # TurnSession(v)) =>
              ENABLED (StartRewriting(v) \/ Rewrite(v) \/ Retrieve(v) \/ Generate(v))

\* C5: the stages of a turn.  A turn is received from handle_user_query,
\* goes from RECEIVED to REWRITING to RETRIEVING to GENERATING to COMPLETED
\* one stage at a time, or from a stage in progress to FAILED; the retriever
\* is entered with the standalone query produced, the answer generator with
\* the retrieval returned, and a completed turn has its answer.
C5_StageOrder ==
    [][\A u \in Users :
          pc'[u] # pc[u] =>
              /\ (pc[u] \in Stages \/ pc'[u] \in Stages) =>
                    \/ pc[u] = "handle" /\ pc'[u] = "RECEIVED"
                    \/ pc[u] = "RECEIVED" /\ pc'[u] = "REWRITING"
                    \/ pc[u] = "REWRITING" /\ pc'[u] = "RETRIEVING"
                    \/ pc[u] = "RETRIEVING" /\ pc'[u] = "GENERATING"
                    \/ pc[u] = "GENERATING" /\ pc'[u] = "COMPLETED"
                    \/ pc[u] \in InFlightStages /\ pc'[u] = "FAILED"
                    \/ pc[u] \in {"COMPLETED", "FAILED"} /\ pc'[u] = "idle"
              /\ pc'[u] = "RETRIEVING" => standalone'[u] # None /\ ~retrieved'[u].done
              /\ pc'[u] = "GENERATING" => retrieved'[u].done /\ answer'[u] = None
              /\ pc'[u] = "COMPLETED" => answer'[u] # None]_vars

\* A turn went through every stage.
C5_Witness ==
    \E u \in Users :
        /\ pc[u] = "COMPLETED"
        /\ standalone[u] # None
        /\ retrieved[u].done
        /\ answer[u] \in Answers

\* C6: rewrite on empty history is the identity.  Whenever the rewriter ran
\* on an empty history, the standalone query is the utterance.
C6_RewriteEmptyHistory ==
    \A u \in Users :
        (query[u] # None /\ standalone[u] # None /\ fetched[u] = <<>>) =>
            standalone[u] = query[u]

\* The rewriter ran on the empty history of a session the store holds.
C6_Witness ==
    /\ lastOp.op = "rewrite"
    /\ fetched[ComponentUser] = <<>>
    /\ query[ComponentUser] \in Utterances
    /\ standalone[ComponentUser] = query[ComponentUser]

\* C7: empty corpus is fatal at startup.  With a data directory that holds
\* no document, the load-and-split step raises: the script run gets no
\* further, builds no index and receives no turn.
C7_EmptyCorpusFailsLoad ==
    corpus = "empty" =>
        \A u \in Users : pc[u] \in {"idle", "load", "load_failed"}

\* C8: append-only growth by exactly one turn.  No step shortens, rewrites
\* or drops a history of a store, and the step that completes a turn extends
\* the history of its session by the turn's utterance and answer.
C8_AppendOnly ==
    [][/\ \A s \in Users : \A k \in SessionIds :
             IsPrefix(HistoryOf(store[s], k), HistoryOf(store'[s], k))
       /\ \A u \in Users :
             (pc[u] = "GENERATING" /\ pc'[u] = "COMPLETED") =>
                 LET old == HistoryOf(store[StoreOf(u)], TurnSession(u))
                     new == HistoryOf(store'[StoreOf(u)], TurnSession(u))
                 IN  /\ Len(new) = Len(old) + 2
                     /\ Contents(SubSeq(new, Len(old) + 1, Len(old) + 2))
                           = TurnContents(<< <<query[u], answer'[u]>> >>)]_vars

\* C9: get_or_create.  A call for a session id the store does not hold adds
\* that key with an empty history; a call for one it holds leaves the store
\* as it is and returns the history with its turns; either way the entries
\* of the other session ids stay as they are.
C9_GetOrCreate ==
    [][(lastOp'.op = "get" /\ lastOp' # lastOp) =>
          LET sid == lastOp'.sid
              old == store[ComponentUser]
              new == store'[ComponentUser]
          IN  /\ sid \in DOMAIN new
              /\ lastOp'.ret = new[sid]
              /\ sid \notin DOMAIN old =>
                    /\ DOMAIN new = DOMAIN old \cup {sid}
                    /\ new[sid] = <<>>
              /\ sid \in DOMAIN old =>
                    /\ new = old
                    /\ lastOp'.ret = old[sid]
              /\ \A k \in DOMAIN old \ {sid} :
                    k \in DOMAIN new /\ new[k] = old[k]]_vars

\* A call returned the two turns of a session while the store holds another
\* session with a turn of its own.
C9_Witness ==
    /\ lastOp.op = "get"
    /\ Len(lastOp.ret) = 4
    /\ \E k \in DOMAIN store[ComponentUser] \ {lastOp.sid} :
          Len(store[ComponentUser][k]) = 2

\* C10: the displayed messages mirror the UI turn list.  Between the script
\* runs of a UI session, messages alternates user and assistant entries, one
\* pair per entry of chat_history and equal to it.
C10_MessagesMirrorHistory ==
    \A u \in Users :
        (pc[u] = "idle" /\ DOMAIN session_state[u] # {}) =>
            LET ms == session_state[u]["messages"]
                ch == session_state[u]["chat_history"]
            IN  /\ Len(ms) = 2 * Len(ch)
                /\ \A i \in 1..Len(ch) :
                      /\ ms[2 * i - 1] = UserEntry(ch[i][1])
                      /\ ms[2 * i] = AssistantEntry(ch[i][2])

====
